---- MODULE Spec2Model ----
(***************************************************************************)
(* Model of Slider_Bot_News/backend/bot_news_optimized.py: the process-    *)
(* wide article cache _CACHE, fetchArticle as executed by concurrent       *)
(* threads, and one getNews run (headline collection, the worker pool,     *)
(* result aggregation, the headline-only fallback and the final sort).     *)
(***************************************************************************)
EXTENDS Integers, Sequences, FiniteSets, TLC

\* ------------------------------------------------------------------ bounds
\* Threads that may execute fetchArticle at the same time (the pool size of
\* a getNews run, parameter parallel_workers of getNews).
parallel_workers == 2
\* fetchArticle calls issued by direct callers in SpecFetch / SpecSeq.
MaxCalls == 3
\* Categories passed to getNews and articles per API response.
MaxCats == 2
MaxItems == 2
\* Parameter fetch_full of getNews (only read by the fallback branch).
fetch_full == 1

Threads == 1 .. parallel_workers

\* ------------------------------------------------------------ value domains
\* Article urls that occur in the model ("" is the empty / missing url).
Urls == {"u1", "u2", "u3"}

\* Python's None.
None == "None"

\* The documents a server may answer with, named by what
\* _extract_article_text makes of them.
Htmls == {"full", "blank", "broken"}

\* HTTP status codes of a final response.
Statuses == {200, 404, 503}

\* What _SESSION.get(url) can do: raise a transport exception, or hand back a
\* response with a status code and a body.
NetOutcomes ==
    {[kind |-> "exc", status |-> 0, html |-> "blank"]}
    \cup {[kind |-> "resp", status |-> s, html |-> h] : s \in Statuses, h \in Htmls}

\* {"text": "", "image": None}
EmptyResult == [text |-> "", image |-> None]

\* _extract_article_text: (text, lead image) of a document, or an exception
\* of the parser.
_extract_article_text(h) ==
    CASE h = "full"  -> [raised |-> FALSE, text |-> "B1", image |-> "img"]
      [] h = "blank" -> [raised |-> FALSE, text |-> "", image |-> None]
      [] OTHER       -> [raised |-> TRUE, text |-> "", image |-> None]

Results ==
    {EmptyResult, [text |-> "B1", image |-> "img"]}

\* Faulty variant of FetchBody: the except clause is missing, so an exception of the
\* request or of the parser leaves fetchArticle.
FetchBodyNoExcept(o) ==
    IF o.kind = "exc"
    THEN [raised |-> TRUE, result |-> EmptyResult, how |-> "exc"]
    ELSE IF o.status # 200
    THEN [raised |-> FALSE, result |-> EmptyResult, how |-> "non200"]
    ELSE LET x == _extract_article_text(o.html)
         IN IF x.raised
            THEN [raised |-> TRUE, result |-> EmptyResult, how |-> "parse_exc"]
            ELSE [raised |-> FALSE,
                  result |-> [text |-> x.text, image |-> x.image], how |-> "ok"]

\* The try block of fetchArticle for one outcome of the request: the local
\* `result`, whether an exception leaves fetchArticle, and which path ran.
FetchBody(o) ==
    IF o.kind = "exc"
    THEN [raised |-> FALSE, result |-> EmptyResult, how |-> "exc"]
    ELSE IF o.status # 200
    THEN [raised |-> FALSE, result |-> EmptyResult, how |-> "non200"]
    ELSE LET x == _extract_article_text(o.html)
         IN IF x.raised
            THEN [raised |-> FALSE, result |-> EmptyResult, how |-> "parse_exc"]
            ELSE [raised |-> FALSE,
                  result |-> [text |-> x.text, image |-> x.image], how |-> "ok"]

\* Faulty variant of CacheStore: the result is never written to the cache.
CacheStoreDropped(c, u, r) == c

\* _CACHE[url] = result on a dict.
CacheStore(c, u, r) ==
    [x \in (DOMAIN c) \cup {u} |-> IF x = u THEN r ELSE c[x]]

\* -------------------------------------------------------------- headlines
\* A "source" value of the API that is a JSON string instead of an object:
\* (item.get("source") or {}).get("name") raises AttributeError on it.
BadSource == "#str"

\* Articles the headline API may list. Titles, descriptions and bodies stand
\* for these texts:
\*   "D1" = "Stocks rise."
\*   "B1" = "Markets rallied on strong earnings. Investors cheered the strong
\*           earnings. Analysts expect more gains. Traders stayed calm all day."
Items ==
    { [url |-> "u1", title |-> "Alpha", source |-> "BBC", description |-> "D1"],
      [url |-> "u2", title |-> "Alpha", source |-> "BBC", description |-> ""],
      [url |-> "u1", title |-> "Beta",  source |-> "",    description |-> "D1"],
      [url |-> "",   title |-> "Beta",  source |-> "BBC", description |-> ""],
      [url |-> "u3", title |-> "",      source |-> "",    description |-> ""],
      [url |-> "u3", title |-> "Beta",  source |-> BadSource, description |-> ""] }

\* Sequences over S of length at most n.
SeqUpTo(S, n) == UNION {[1 .. k -> S] : k \in 0 .. n}

\* What one _gnews_request call can meet: a 200 response with an article
\* list, a non-200 response, or an exception (transport error, bad JSON).
ApiResponses ==
    {[kind |-> "ok", articles |-> a] : a \in SeqUpTo(Items, MaxItems)}
    \cup {[kind |-> "non200", articles |-> <<>>], [kind |-> "exc", articles |-> <<>>]}

\* _gnews_request: the list it returns, or an exception.
_gnews_request(resp) ==
    CASE resp.kind = "ok"     -> [raised |-> FALSE, items |-> resp.articles]
      [] resp.kind = "non200" -> [raised |-> FALSE, items |-> <<>>]
      [] OTHER                -> [raised |-> TRUE,  items |-> <<>>]

\* Faulty variant of AddItems: the `url in seen_urls` test is missing.
RECURSIVE AddItemsNoDedup(_, _, _)
AddItemsNoDedup(its, hl, seen) ==
    IF its = <<>>
    THEN [headlines |-> hl, seen_urls |-> seen]
    ELSE LET it == Head(its)
         IN IF it.url = ""
            THEN AddItemsNoDedup(Tail(its), hl, seen)
            ELSE AddItemsNoDedup(Tail(its), Append(hl, it), seen \cup {it.url})

\* The inner loop of getNews step 1 over one response.
RECURSIVE AddItems(_, _, _)
AddItems(its, hl, seen) ==
    IF its = <<>>
    THEN [headlines |-> hl, seen_urls |-> seen]
    ELSE LET it == Head(its)
         IN IF it.url = "" \/ it.url \in seen
            THEN AddItems(Tail(its), hl, seen)
            ELSE AddItems(Tail(its), Append(hl, it), seen \cup {it.url})

\* Faulty variant of AfterFailure: the except clause leaves the category loop.
AfterFailureBreak(c, n) == n + 1

\* except Exception: continue -- the category after a failed one.
AfterFailure(c, n) == c + 1

\* ---------------------------------------------------------------- records
\* hashlib.sha1(title).hexdigest(), by its leading byte (the digests of the
\* model's titles are 58061a.., f03b60.., b613af..).
_hash(title) ==
    CASE title = "Alpha"    -> 88
      [] title = "Beta"     -> 240
      [] title = "No Title" -> 182

\* Python's order of the source names.
SourceRank(source) ==
    CASE source = "BBC"     -> 1
      [] source = "Unknown" -> 2

Neutral == [compound |-> 0, label |-> "neutral"]

\* The nltk import at module load succeeded.
_have_vader == TRUE

\* _VADER_SIA.polarity_scores(text)["compound"], in hundredths: the library's
\* score of the model's texts.
polarity_scores(text) ==
    CASE text = "B1"    -> 64
      [] text = "D1"    -> 5
      [] text = "Alpha" -> 0
      [] text = "Beta"  -> -5
      [] OTHER          -> 0

\* Faulty variant of LabelOf: the boundaries are exclusive.
LabelOfStrict(comp) ==
    IF comp > 5 THEN "positive"
    ELSE IF comp < -5 THEN "negative" ELSE "neutral"

\* The label of a compound score (hundredths): 0.05 and -0.05 are inclusive.
LabelOf(comp) ==
    IF comp >= 5 THEN "positive"
    ELSE IF comp <= -5 THEN "negative" ELSE "neutral"

\* analyze_sentiment on a text the lexicon scores comp; text is None, "" or
\* a text, vader tells whether _VADER_SIA was built.
SentimentOf(text, vader, comp) ==
    IF text = None \/ text = "" THEN Neutral
    ELSE IF ~vader THEN Neutral
    ELSE [compound |-> comp, label |-> LabelOf(comp)]

analyze_sentiment(text, vader) == SentimentOf(text, vader, polarity_scores(text))

\* summarizeText(text, max_sentences=3) on the model's texts: "B1s" is B1
\* without its third sentence; the titles and D1 have no sentence of three
\* words.
summarizeText(text) ==
    CASE text = "B1" -> "B1s"
      [] OTHER       -> ""

Or(a, b) == IF a # "" THEN a ELSE b

\* The field reads that open _work; raises on a malformed source.
WorkRaises(item) == item.source = BadSource

\* Faulty variant of WorkText: the description is skipped.
WorkTextNoDescription(item, art) ==
    Or(art.text, Or(item.title, "No Title"))

\* text = art.get("text") or desc or title, title being the defaulted one.
WorkText(item, art) ==
    Or(art.text, Or(item.description, Or(item.title, "No Title")))

\* Faulty variant of WorkRecordWith: the sentiment is taken from the title.
WorkRecordTitleSentiment(item, art, vader, comp) ==
    LET text == WorkText(item, art)
    IN [title     |-> Or(item.title, "No Title"),
        source    |-> Or(item.source, "Unknown"),
        summary   |-> summarizeText(text),
        text      |-> text,
        url       |-> item.url,
        sentiment |-> SentimentOf(item.title, vader, comp)]

\* The record _work returns for a headline and the fetched article, the
\* lexicon scoring the text comp.
WorkRecordWith(item, art, vader, comp) ==
    LET text == WorkText(item, art)
    IN [title     |-> Or(item.title, "No Title"),
        source    |-> Or(item.source, "Unknown"),
        summary   |-> summarizeText(text),
        text      |-> text,
        url       |-> item.url,
        sentiment |-> SentimentOf(text, vader, comp)]

WorkRecord(item, art) ==
    WorkRecordWith(item, art, _have_vader, polarity_scores(WorkText(item, art)))

\* The headline-only record of step 4.
FallbackRecord(it) ==
    [title     |-> Or(it.title, "No Title"),
     source    |-> IF it.source = BadSource THEN BadSource ELSE Or(it.source, "Unknown"),
     summary   |-> it.description,
     url       |-> it.url,
     sentiment |-> Neutral]

Max(a, b) == IF a >= b THEN a ELSE b

FallbackRecords(hl) ==
    LET n == IF Len(hl) < Max(5, fetch_full) THEN Len(hl) ELSE Max(5, fetch_full)
    IN [i \in 1 .. n |-> FallbackRecord(hl[i])]

\* key=lambda d: (d["source"], _hash(d["title"])): a before-or-equal b.
KeyLE(a, b) ==
    \/ SourceRank(a.source) < SourceRank(b.source)
    \/ /\ SourceRank(a.source) = SourceRank(b.source)
       /\ _hash(a.title) <= _hash(b.title)

\* list.sort is stable: r goes behind every element whose key is not greater.
RECURSIVE InsertSorted(_, _)
InsertSorted(s, r) ==
    IF s = <<>> THEN <<r>>
    ELSE IF KeyLE(Head(s), r) THEN <<Head(s)>> \o InsertSorted(Tail(s), r)
    ELSE <<r>> \o s

\* Faulty variant of SortStable: the list is left as it was built.
SortStableNone(s) == s

RECURSIVE SortStable(_)
SortStable(s) ==
    IF s = <<>> THEN <<>>
    ELSE InsertSorted(SortStable(SubSeq(s, 1, Len(s) - 1)), s[Len(s)])

\* ------------------------------------------------------------------- state
VARIABLES
    _CACHE,     \* dict url -> result: a function on the cached urls
    thr,        \* per thread: where it is in fetchArticle / _work
    netGets,    \* per url: _SESSION.get calls issued for it so far
    firstRet,   \* per url: the first result a fetchArticle call returned,
                \* and netGets[url] at that moment
    calls,      \* fetchArticle calls started by direct callers
    pc,         \* where the getNews call is
    ncats,      \* len(categories)
    cat,        \* index of the category the loop of step 1 is at
    items,      \* the list _gnews_request returned for that category
    headlines,  \* list of the kept articles
    seen_urls,  \* set of their urls
    fut,        \* the futures of ex.map, one per element of chosen
    out,        \* list of the records
    nreq,       \* _gnews_request calls made so far
    failedCats, \* the categories whose request gave a non-200 response or
                \* raised
    failAdded,  \* headlines appended while the loop was at such a category
    okUrls,     \* the non-empty urls listed by the 200 responses so far
    dupSeen,    \* some response listed a url a second time
    overtaken,  \* some task finished before a task submitted earlier
    call        \* one direct call of a helper: its arguments and, once it
                \* has run, what it returned

fetchVars == <<_CACHE, thr, netGets, firstRet, calls>>
collectVars == <<ncats, cat, items, headlines, seen_urls>>
ghostCats == <<nreq, failedCats, failAdded, okUrls, dupSeen>>
newsVars == <<pc, collectVars, ghostCats, fut, out, overtaken, call>>
progVars == <<fetchVars, pc, collectVars, ghostCats, fut, out, overtaken>>
vars == <<fetchVars, newsVars>>

IdleThread ==
    [pc |-> "idle", url |-> "", result |-> EmptyResult, how |-> "none", task |-> 0]

\* The module after import, no getNews call in progress.
\* No helper is called directly.
NoCall == [op |-> "none"]

\* The program after module load, nothing running.
InitIdle ==
    /\ _CACHE = <<>>
    /\ thr = [t \in Threads |-> IdleThread]
    /\ netGets = [u \in Urls |-> 0]
    /\ firstRet = <<>>
    /\ calls = 0
    /\ pc = "idle"
    /\ ncats = 0
    /\ cat = 1
    /\ items = <<>>
    /\ headlines = <<>>
    /\ seen_urls = {}
    /\ fut = <<>>
    /\ out = <<>>
    /\ nreq = 0
    /\ failedCats = {}
    /\ failAdded = 0
    /\ okUrls = {}
    /\ dupSeen = FALSE
    /\ overtaken = FALSE

Init == InitIdle /\ call = NoCall

\* Ghost: remember the first value returned for url u.
NoteReturn(fr, u, r, gets) ==
    IF u \in DOMAIN fr
    THEN fr
    ELSE [x \in (DOMAIN fr) \cup {u} |->
             IF x = u THEN [result |-> r, gets |-> gets] ELSE fr[x]]

\* ------------------------------------------------------------ fetchArticle
\* Faulty variant of FirstIdle: a task is handed to a busy worker.
FirstIdleBusy(t) == TRUE

\* Threads are interchangeable: new work goes to the free thread of lowest
\* index.
FirstIdle(t) ==
    /\ thr[t].pc = "idle"
    /\ \A s \in 1 .. t - 1 : thr[s].pc # "idle"

\* A caller enters fetchArticle(u) on thread t.
CallFetch(t, u) ==
    /\ FirstIdle(t)
    /\ calls < MaxCalls
    /\ calls' = calls + 1
    /\ thr' = [thr EXCEPT ![t] = [IdleThread EXCEPT !.pc = "lookup", !.url = u]]
    /\ UNCHANGED <<_CACHE, netGets, firstRet, newsVars>>

\* Faulty variant of CacheLookup: fetchArticle is entered by one thread at a
\* time, the others wait at its door.
CacheLookupLocked(t) ==
    /\ thr[t].pc = "lookup"
    /\ \A s \in Threads \ {t} : thr[s].pc \notin {"get", "put"}
    /\ LET u == thr[t].url
       IN IF u \in DOMAIN _CACHE
          THEN /\ thr' = [thr EXCEPT ![t].pc = "ret", ![t].result = _CACHE[u],
                                     ![t].how = "hit"]
               /\ firstRet' = NoteReturn(firstRet, u, _CACHE[u], netGets[u])
          ELSE /\ thr' = [thr EXCEPT ![t].pc = "get"]
               /\ UNCHANGED firstRet
    /\ UNCHANGED <<_CACHE, netGets, calls, newsVars>>

\* if url in _CACHE: return _CACHE[url]
CacheLookup(t) ==
    /\ thr[t].pc = "lookup"
    /\ LET u == thr[t].url
       IN IF u \in DOMAIN _CACHE
          THEN /\ thr' = [thr EXCEPT ![t].pc = "ret", ![t].result = _CACHE[u],
                                     ![t].how = "hit"]
               /\ firstRet' = NoteReturn(firstRet, u, _CACHE[u], netGets[u])
          ELSE /\ thr' = [thr EXCEPT ![t].pc = "get"]
               /\ UNCHANGED firstRet
    /\ UNCHANGED <<_CACHE, netGets, calls, newsVars>>

\* r = _SESSION.get(url, timeout=timeout) and the rest of the try block.
SessionGet(t) ==
    /\ thr[t].pc = "get"
    /\ \E o \in NetOutcomes :
          LET b == FetchBody(o)
          IN thr' = [thr EXCEPT ![t].pc = IF b.raised THEN "raised" ELSE "put",
                                ![t].result = b.result,
                                ![t].how = b.how]
    /\ netGets' = [netGets EXCEPT ![thr[t].url] = @ + 1]
    /\ UNCHANGED <<_CACHE, firstRet, calls, newsVars>>

\* _CACHE[url] = result; return result
CachePut(t) ==
    /\ thr[t].pc = "put"
    /\ _CACHE' = CacheStore(_CACHE, thr[t].url, thr[t].result)
    /\ thr' = [thr EXCEPT ![t].pc = "ret"]
    /\ firstRet' = NoteReturn(firstRet, thr[t].url, thr[t].result, netGets[thr[t].url])
    /\ UNCHANGED <<netGets, calls, newsVars>>

\* The direct caller takes the returned value; the thread is free again.
FetchReturn(t) ==
    /\ thr[t].pc = "ret"
    /\ thr[t].task = 0
    /\ thr' = [thr EXCEPT ![t] = IdleThread]
    /\ UNCHANGED <<_CACHE, netGets, firstRet, calls, newsVars>>

\* Concurrent callers of fetchArticle (worker threads of any getNews runs of
\* the process).
NextFetch ==
    \E t \in Threads :
       \/ \E u \in Urls : CallFetch(t, u)
       \/ CacheLookup(t)
       \/ SessionGet(t)
       \/ CachePut(t)
       \/ FetchReturn(t)

SpecFetch == Init /\ [][NextFetch]_vars

\* Sequential callers: a call starts only when no other call is in progress.
AllIdle == \A t \in Threads : thr[t].pc = "idle"

NextSeq ==
    \E t \in Threads :
       \/ \E u \in Urls : AllIdle /\ CallFetch(t, u)
       \/ CacheLookup(t)
       \/ SessionGet(t)
       \/ CachePut(t)
       \/ FetchReturn(t)

SpecSeq == Init /\ [][NextSeq]_vars

\* ----------------------------------------------------------------- getNews
\* Caches a process may hold when a getNews call starts: nothing, or the
\* entry an earlier call left for u1.
WarmCaches ==
    {<<>>, [u \in {"u1"} |-> [text |-> "B1", image |-> "img"]]}

\* getNews is called with ncats categories.
InitNews ==
    /\ _CACHE \in WarmCaches
    /\ thr = [t \in Threads |-> IdleThread]
    /\ netGets = [u \in Urls |-> 0]
    /\ firstRet = <<>>
    /\ calls = 0
    /\ pc = "request"
    /\ ncats \in 0 .. MaxCats
    /\ cat = 1
    /\ items = <<>>
    /\ headlines = <<>>
    /\ seen_urls = {}
    /\ fut = <<>>
    /\ out = <<>>
    /\ nreq = 0
    /\ failedCats = {}
    /\ failAdded = 0
    /\ okUrls = {}
    /\ dupSeen = FALSE
    /\ overtaken = FALSE
    /\ call = NoCall

UrlsOf(s) == {s[i].url : i \in DOMAIN s}

\* items = _gnews_request(api_key, cat, ...) inside the try of step 1.
GnewsRequest ==
    /\ pc = "request"
    /\ cat <= ncats
    /\ \E resp \in ApiResponses :
          LET g == _gnews_request(resp)
          IN /\ nreq' = nreq + 1
             /\ failedCats' = IF resp.kind = "ok" THEN failedCats
                              ELSE failedCats \cup {cat}
             /\ IF g.raised
                THEN /\ cat' = AfterFailure(cat, ncats)
                     /\ UNCHANGED <<pc, items>>
                ELSE /\ items' = g.items
                     /\ pc' = "accumulate"
                     /\ UNCHANGED cat
    /\ UNCHANGED <<call, fetchVars, ncats, headlines, seen_urls, fut, out,
                   failAdded, okUrls, dupSeen, overtaken>>

\* for it in items: ... headlines.append(it)
Accumulate ==
    /\ pc = "accumulate"
    /\ LET r == AddItems(items, headlines, seen_urls)
       IN /\ headlines' = r.headlines
          /\ seen_urls' = r.seen_urls
          /\ failAdded' = IF cat \in failedCats
                          THEN failAdded + Len(r.headlines) - Len(headlines)
                          ELSE failAdded
    /\ okUrls' = okUrls \cup (UrlsOf(items) \ {""})
    /\ dupSeen' = (dupSeen \/ \E i \in DOMAIN items :
                                 /\ items[i].url # ""
                                 /\ \/ items[i].url \in seen_urls
                                    \/ \E j \in 1 .. i - 1 : items[j].url = items[i].url)
    /\ items' = <<>>
    /\ cat' = cat + 1
    /\ pc' = "request"
    /\ UNCHANGED <<call, fetchVars, ncats, fut, out, nreq, failedCats, overtaken>>

\* chosen = headlines; ex.map(_work, chosen) submits one task per headline.
\* Faulty variant of Chosen: the commented-out headlines[:fetch_full].
ChosenCapped(hl) == SubSeq(hl, 1, IF Len(hl) < fetch_full THEN Len(hl) ELSE fetch_full)

\* chosen = headlines: every collected headline is handed to the pool.
Chosen(hl) == hl

Dispatch ==
    /\ pc = "request"
    /\ cat > ncats
    /\ fut' = [i \in 1 .. Len(Chosen(headlines)) |-> [state |-> "pending", art |-> EmptyResult, rec |-> <<>>]]
    /\ pc' = "collect"
    /\ UNCHANGED <<call, fetchVars, collectVars, ghostCats, out, overtaken>>

Pending == {i \in DOMAIN fut : fut[i].state = "pending"}

Min(S) == CHOOSE x \in S : \A y \in S : x <= y

\* A free pool thread takes the oldest queued task and runs _work up to the
\* fetchArticle call; an exception of the field reads ends the task.
TaskStart(t) ==
    /\ pc \in {"collect", "raising"}
    /\ FirstIdle(t)
    /\ Pending # {}
    /\ LET i == Min(Pending)
           item == Chosen(headlines)[i]
       IN IF WorkRaises(item)
          THEN /\ fut' = [fut EXCEPT ![i].state = "failed"]
               /\ overtaken' = (overtaken \/ \E j \in 1 .. i - 1 : fut[j].state = "running")
               /\ UNCHANGED thr
          ELSE /\ fut' = [fut EXCEPT ![i].state = "running"]
               /\ thr' = [thr EXCEPT ![t] = [IdleThread EXCEPT !.pc = "lookup",
                                                !.url = item.url, !.task = i]]
               /\ UNCHANGED overtaken
    /\ UNCHANGED <<call, _CACHE, netGets, firstRet, calls, pc, collectVars, ghostCats, out>>

\* The rest of _work after fetchArticle returned: the record is the task's
\* result.
TaskFinish(t) ==
    /\ thr[t].pc = "ret"
    /\ thr[t].task # 0
    /\ LET i == thr[t].task
       IN /\ fut' = [fut EXCEPT ![i] =
                        [state |-> "done", art |-> thr[t].result,
                         rec |-> <<WorkRecord(Chosen(headlines)[i], thr[t].result)>>]]
          /\ overtaken' = (overtaken \/ \E j \in 1 .. i - 1 : fut[j].state = "running")
    /\ thr' = [thr EXCEPT ![t] = IdleThread]
    /\ UNCHANGED <<call, _CACHE, netGets, firstRet, calls, pc, collectVars, ghostCats, out>>

Finished(f) == {i \in DOMAIN f : f[i].state \in {"done", "failed"}}

\* Faulty variant of NextResults: results are taken as the tasks complete.
NextResultsAsCompleted(f) == Finished(f)

\* The tasks whose result the iterator of ex.map can hand out next: the
\* oldest one not handed out yet, once it has finished.
NextResults(f) ==
    LET rest == {i \in DOMAIN f : f[i].state # "taken"}
    IN IF rest = {} THEN {} ELSE {Min(rest)} \cap Finished(f)

\* Faulty variant of OnTaskError: the exception of a task is swallowed.
OnTaskErrorDrop(f, i) == [pc |-> "collect", fut |-> [f EXCEPT ![i].state = "taken"]]

\* A task's exception leaves the for loop over ex.map: the iterator cancels
\* the tasks still queued, and the exception goes on out of the with block.
OnTaskError(f, i) ==
    [pc |-> "raising",
     fut |-> [j \in DOMAIN f |->
                 IF f[j].state = "pending" THEN [f[j] EXCEPT !.state = "cancelled"]
                 ELSE f[j]]]

\* for res in ex.map(_work, chosen): if res: out.append(res)
Collect ==
    /\ pc = "collect"
    /\ \E i \in NextResults(fut) :
          IF fut[i].state = "done"
          THEN /\ out' = out \o fut[i].rec
               /\ fut' = [fut EXCEPT ![i].state = "taken"]
               /\ UNCHANGED pc
          ELSE /\ pc' = OnTaskError(fut, i).pc
               /\ fut' = OnTaskError(fut, i).fut
               /\ UNCHANGED out
    /\ UNCHANGED <<call, fetchVars, collectVars, ghostCats, overtaken>>

\* Steps 4 and 5 and the return, after the with block has ended.
Finish ==
    /\ pc = "collect"
    /\ \A i \in DOMAIN fut : fut[i].state = "taken"
    /\ \A t \in Threads : thr[t].pc = "idle"
    /\ IF out = <<>> /\ headlines # <<>>
       THEN IF \E i \in DOMAIN FallbackRecords(headlines) : WorkRaises(headlines[i])
            THEN pc' = "raised" /\ UNCHANGED out
            ELSE pc' = "returned" /\ out' = SortStable(FallbackRecords(headlines))
       ELSE pc' = "returned" /\ out' = SortStable(out)
    /\ UNCHANGED <<call, fetchVars, collectVars, ghostCats, fut, overtaken>>

\* The with block ends (shutdown(wait=True)) once no task is running; the
\* task's exception then leaves getNews.
Shutdown ==
    /\ pc = "raising"
    /\ \A t \in Threads : thr[t].pc = "idle"
    /\ pc' = "raised"
    /\ UNCHANGED <<call, fetchVars, collectVars, ghostCats, fut, out, overtaken>>

Next ==
    \/ GnewsRequest
    \/ Accumulate
    \/ Dispatch
    \/ Collect
    \/ Finish
    \/ Shutdown
    \/ \E t \in Threads :
          \/ TaskStart(t)
          \/ CacheLookup(t)
          \/ SessionGet(t)
          \/ CachePut(t)
          \/ TaskFinish(t)

Spec == InitNews /\ [][Next]_vars

\* ---------------------------------------------------------- article cache
FailedHow == {"exc", "non200", "parse_exc"}

\* C1: with sequential calls, once a fetchArticle call for a url has
\* returned, no further request is issued for that url (no later call gets
\* past the cache lookup) and every later call returns that first result.
C1_SequentialCacheIdempotent ==
    /\ \A u \in DOMAIN firstRet : netGets[u] = firstRet[u].gets
    /\ \A t \in Threads :
          /\ thr[t].pc \in {"get", "put"} => thr[t].url \notin DOMAIN firstRet
          /\ thr[t].pc = "ret" =>
                /\ thr[t].url \in DOMAIN firstRet
                /\ thr[t].result = firstRet[thr[t].url].result

\* A later call was served from the cache with the stored failure result.
C1_Witness ==
    \E t \in Threads :
       /\ thr[t].pc = "ret"
       /\ thr[t].how = "hit"
       /\ thr[t].result = EmptyResult
       /\ netGets[thr[t].url] = 1

\* C2: under every interleaving of concurrent fetchArticle calls, at most
\* one network GET is ever issued for a url.
C2_AtMostOneGetPerUrl == \A u \in Urls : netGets[u] <= 1

\* C3: a cache entry is written at most once: once _CACHE[url] holds a
\* result, no later step replaces it with a different value.
C3_CacheEntryImmutable ==
    [][\A u \in DOMAIN _CACHE : u \in DOMAIN _CACHE' /\ _CACHE'[u] = _CACHE[u]]_vars

\* C6: fetchArticle never raises; a non-200 response, a transport exception
\* or a parse exception makes it return the empty result, and that empty
\* result is what it stores in the cache.
C6_FetchNeverRaises ==
    /\ [](\A t \in Threads :
            /\ thr[t].pc # "raised"
            /\ (thr[t].pc \in {"put", "ret"} /\ thr[t].how \in FailedHow)
                  => thr[t].result = EmptyResult)
    /\ [][\A t \in Threads :
            (thr[t].pc = "put" /\ thr[t].how \in FailedHow /\ thr'[t].pc = "ret")
               => /\ thr'[t].result = EmptyResult
                  /\ thr[t].url \in DOMAIN _CACHE'
                  /\ _CACHE'[thr[t].url] = EmptyResult]_vars

\* A call whose page could not be parsed has returned, the empty result
\* being cached.
C6_Witness ==
    \E t \in Threads :
       /\ thr[t].pc = "ret"
       /\ thr[t].how = "parse_exc"
       /\ thr[t].url \in DOMAIN _CACHE
       /\ _CACHE[thr[t].url] = EmptyResult

\* ------------------------------------------------------ headline collection
\* The position of the first item of a response that carries url u.
FirstPos(its, u) == Min({j \in DOMAIN its : its[j].url = u})

\* C4: the headline list holds each non-empty url of the 200 responses
\* exactly once and no empty url, and keeps the first-seen order: every
\* response extends the list by its new urls, each with the first item that
\* carries it, in the order of the response.
C4_HeadlinesDedupInOrder ==
    /\ [](/\ \A i \in DOMAIN headlines : headlines[i].url # ""
          /\ \A i, j \in DOMAIN headlines :
                headlines[i].url = headlines[j].url => i = j
          /\ seen_urls = UrlsOf(headlines)
          /\ pc # "accumulate" => UrlsOf(headlines) = okUrls)
    /\ [][pc = "accumulate" =>
            /\ Len(headlines') >= Len(headlines)
            /\ SubSeq(headlines', 1, Len(headlines)) = headlines
            /\ \A k \in Len(headlines) + 1 .. Len(headlines') :
                  /\ headlines'[k].url \in UrlsOf(items) \ seen_urls
                  /\ headlines'[k] = items[FirstPos(items, headlines'[k].url)]
                  /\ \A m \in Len(headlines) + 1 .. k - 1 :
                        FirstPos(items, headlines'[m].url)
                           < FirstPos(items, headlines'[k].url)]_vars

\* Two categories were collected, a url was listed twice, and the headline
\* kept for u1 is the one listed first.
C4_Witness ==
    /\ pc = "collect"
    /\ nreq = 2
    /\ failedCats = {}
    /\ dupSeen
    /\ Len(headlines) = 2
    /\ headlines[1].url = "u2"
    /\ headlines[2] = [url |-> "u1", title |-> "Beta", source |-> "", description |-> "D1"]

\* C5: a category whose request gives a non-200 response or raises adds no
\* headline, every category is still requested, and the headlines of the
\* other categories are collected, handed to the pool and, when the run
\* returns, present in the result.
C5_CategoryFailureIsolated ==
    /\ failAdded = 0
    /\ pc \notin {"request", "accumulate"} =>
          /\ nreq = ncats
          /\ UrlsOf(headlines) = okUrls
          /\ DOMAIN fut = DOMAIN headlines
    /\ pc = "returned" => UrlsOf(out) = okUrls

\* The first category failed, the second one was collected and enriched.
C5_Witness ==
    /\ pc = "returned"
    /\ ncats = 2
    /\ failedCats = {1}
    /\ Len(out) = 2

\* ------------------------------------------------------------- worker pool
\* C7: a worker task that throws is dropped silently: getNews neither
\* raises nor loses the records of the sibling tasks.
C7_ThrowingTaskDropped ==
    /\ pc \notin {"raising", "raised"}
    /\ pc = "returned" =>
          \A i \in DOMAIN headlines :
             ~WorkRaises(headlines[i]) => headlines[i].url \in UrlsOf(out)

\* C8: a run that collected at least one headline ends by returning a
\* non-empty list, the headline-only records if no task produced a record.
C8_NonEmptyWhenHeadlines ==
    (pc \in {"returned", "raised"} /\ headlines # <<>>) =>
        /\ pc = "returned"
        /\ out # <<>>
        /\ (\A i \in DOMAIN fut : fut[i].state # "taken")
              => out = SortStable(FallbackRecords(headlines))

\* The permutations of 1 .. n.
Perms(n) == {p \in [1 .. n -> 1 .. n] : \A i, j \in 1 .. n : p[i] = p[j] => i = j}

SameKey(a, b) == KeyLE(a, b) /\ KeyLE(b, a)

\* o is recs in ascending key order, records of equal key in the order they
\* have in recs. There is one such o for each recs.
IsStableOrderingOf(o, recs) ==
    /\ Len(o) = Len(recs)
    /\ \E p \in Perms(Len(recs)) :
          /\ \A i \in DOMAIN o : o[i] = recs[p[i]]
          /\ \A i, j \in DOMAIN o :
                i < j => /\ KeyLE(o[i], o[j])
                         /\ SameKey(o[i], o[j]) => p[i] < p[j]

\* C9: the returned list is fixed by the headline sequence and the fetch
\* result of each headline, whatever the interleaving and completion order
\* of the tasks: it is the stable key ordering of the records taken in
\* headline order, and the run raises exactly when some headline makes its
\* task throw.
C9_OutputIndependentOfSchedule ==
    /\ pc = "returned" =>
          /\ \A i \in DOMAIN headlines : ~WorkRaises(headlines[i])
          /\ IsStableOrderingOf(out,
                [i \in DOMAIN headlines |-> WorkRecord(headlines[i], fut[i].art)])
    /\ pc = "raised" => \E i \in DOMAIN headlines : WorkRaises(headlines[i])

\* A run returned three records, two of them with the same key, after a
\* task had finished before one submitted earlier.
C9_Witness ==
    /\ pc = "returned"
    /\ overtaken
    /\ Len(out) = 3
    /\ \E i, j \in DOMAIN out : i # j /\ SameKey(out[i], out[j])

\* What a getNews run returns for the headline sequence hl when fetchArticle
\* gives art[u] for url u.
getNewsOutput(hl, art) ==
    SortStable([i \in DOMAIN hl |-> WorkRecord(hl[i], art[hl[i].url])])

\* C10: the returned list does not depend on the order of the headlines:
\* every permutation of the headline sequence, with the same fetch results,
\* yields the list this run returned.
C10_OutputIndependentOfInputOrder ==
    pc = "returned" =>
       LET art == [u \in UrlsOf(headlines) |->
                      fut[CHOOSE i \in DOMAIN headlines : headlines[i].url = u].art]
       IN \A p \in Perms(Len(headlines)) :
             getNewsOutput([i \in DOMAIN headlines |-> headlines[p[i]]], art) = out

\* The records of a finished run in headline order, as they stood before
\* the sort of step 5.
RecordsInOrder ==
    [i \in DOMAIN headlines |-> WorkRecord(headlines[i], fut[i].art)]

\* C11: the list a getNews run returns is sorted ascending by
\* (source, hash(title)).
C11_ReturnedListSorted ==
    pc = "returned" =>
       \A i \in 1 .. Len(out) - 1 : KeyLE(out[i], out[i + 1])

\* A run returned although its records, in headline order, were out of
\* key order.
C11_Witness ==
    /\ pc = "returned"
    /\ Len(out) >= 2
    /\ \E i, j \in DOMAIN headlines :
          i < j /\ ~KeyLE(RecordsInOrder[i], RecordsInOrder[j])

C17_OneTaskPerUrl ==
    \A i, j \in DOMAIN fut :
       /\ fut[i].state = "running"
       /\ fut[j].state = "running"
       /\ headlines[i].url = headlines[j].url
       => i = j

\* Two tasks are in flight in a run that met a repeated url.
C17_Witness ==
    /\ dupSeen
    /\ \E i, j \in DOMAIN fut :
          i # j /\ fut[i].state = "running" /\ fut[j].state = "running"

\* C20: at no time are more than parallel_workers tasks executing.
C20_PoolBounded ==
    Cardinality({i \in DOMAIN fut : fut[i].state = "running"}) <= parallel_workers

\* The pool is full while a further task waits.
C20_Witness ==
    /\ Cardinality({i \in DOMAIN fut : fut[i].state = "running"}) = parallel_workers
    /\ Pending # {}

\* ------------------------------------------- analyze_sentiment, called alone
\* The texts handed to analyze_sentiment: None, "" and some texts.
SentimentTexts == {None, "", "B1", "D1", "Alpha", "Beta"}

\* Compound scores the lexicon may give, in hundredths: the ends of the
\* scale, the two boundaries and their neighbours.
Compounds == {-100, -6, -5, -4, 0, 4, 5, 6, 100}

InitSentiment ==
    /\ InitIdle
    /\ call \in {[op |-> "analyze_sentiment", text |-> x, vader |-> v, comp |-> c,
                   done |-> FALSE, ret |-> <<>>] :
                     x \in SentimentTexts, v \in BOOLEAN, c \in Compounds}

\* analyze_sentiment(text) runs.
CallSentiment ==
    /\ call.op = "analyze_sentiment"
    /\ ~call.done
    /\ call' = [call EXCEPT !.done = TRUE,
                            !.ret = <<SentimentOf(call.text, call.vader, call.comp)>>]
    /\ UNCHANGED progVars

SpecSentiment == InitSentiment /\ [][CallSentiment]_vars

\* C13: analyze_sentiment gives compound 0 and label neutral for an empty
\* or absent text and when the lexicon is unavailable; otherwise it gives
\* the lexicon's compound and the label is positive exactly for
\* compound >= 0.05, negative exactly for compound <= -0.05, and neutral
\* exactly in between.
C13_SentimentLabels ==
    (call.op = "analyze_sentiment" /\ call.done) =>
       LET r == call.ret[1]
       IN IF call.text \in {None, ""} \/ ~call.vader
          THEN r = [compound |-> 0, label |-> "neutral"]
          ELSE /\ r.compound = call.comp
               /\ r.label \in {"positive", "negative", "neutral"}
               /\ r.label = "positive" <=> call.comp >= 5
               /\ r.label = "negative" <=> call.comp <= -5
               /\ r.label = "neutral" <=> (-5 < call.comp /\ call.comp < 5)

\* A text scored exactly 0.05 came back positive.
C13_Witness ==
    /\ call.op = "analyze_sentiment"
    /\ call.done
    /\ call.vader
    /\ call.text = "D1"
    /\ call.comp = 5
    /\ call.ret[1].label = "positive"

\* ----------------------------------------------------- _work, called alone
\* The headlines a task can get: step 1 keeps no headline without url.
WorkItems == {it \in Items : it.url # ""}

InitWork ==
    /\ InitIdle
    /\ call \in {[op |-> "_work", item |-> it, net |-> o, vader |-> v, comp |-> c,
                   done |-> FALSE, raised |-> FALSE, art |-> EmptyResult,
                   how |-> "none", ret |-> <<>>] :
                     it \in WorkItems, o \in NetOutcomes, v \in BOOLEAN,
                     c \in Compounds}

\* _work(item) runs to its end on one thread: the field reads, fetchArticle
\* with the request ending as call.net, the sentiment (the lexicon scoring
\* the text call.comp), the summary, and the record.
CallWork ==
    /\ call.op = "_work"
    /\ ~call.done
    /\ IF WorkRaises(call.item)
       THEN /\ call' = [call EXCEPT !.done = TRUE, !.raised = TRUE]
            /\ UNCHANGED <<_CACHE, netGets>>
       ELSE LET u == call.item.url
                hit == u \in DOMAIN _CACHE
                b == FetchBody(call.net)
                art == IF hit THEN _CACHE[u] ELSE b.result
            IN /\ _CACHE' = IF hit THEN _CACHE ELSE CacheStore(_CACHE, u, art)
               /\ netGets' = IF hit THEN netGets ELSE [netGets EXCEPT ![u] = @ + 1]
               /\ call' = [call EXCEPT
                             !.done = TRUE,
                             !.art = art,
                             !.how = IF hit THEN "hit" ELSE b.how,
                             !.ret = <<WorkRecordWith(call.item, art, call.vader, call.comp)>>]
    /\ UNCHANGED <<thr, firstRet, calls, pc, collectVars, ghostCats, fut, out, overtaken>>

SpecWork == InitWork /\ [][CallWork]_vars

\* A _work call has returned a record.
WorkReturned == call.op = "_work" /\ call.done /\ ~call.raised

\* C12 as stated: after a fetch that timed out, text and summary of the
\* record are the description, and the sentiment is neutral when the
\* description is empty.
C12_TimeoutFallsBackToDescription ==
    (WorkReturned /\ call.how = "exc") =>
       LET r == call.ret[1]
       IN /\ r.text = call.item.description
          /\ r.summary = call.item.description
          /\ call.item.description = "" => r.sentiment = Neutral

\* C12, amended: after a fetch that timed out, the text of the record is
\* the description or, when the description is empty, the title ("No Title"
\* without one); the summary is summarizeText of that text and the
\* sentiment is analyze_sentiment of that text, so neutral exactly when the
\* lexicon is missing or scores that text strictly between -0.05 and 0.05.
C12_TimeoutFallsBackToDescriptionOrTitle ==
    (WorkReturned /\ call.how = "exc") =>
       LET r == call.ret[1]
           d == call.item.description
           t == call.item.title
       IN /\ d # "" => r.text = d
          /\ (d = "" /\ t # "") => r.text = t
          /\ (d = "" /\ t = "") => r.text = "No Title"
          /\ r.summary = summarizeText(r.text)
          /\ r.sentiment = SentimentOf(r.text, call.vader, call.comp)
          /\ r.sentiment.label = "neutral" <=>
                (~call.vader \/ (-5 < call.comp /\ call.comp < 5))

\* A timed-out fetch for a headline without description gave a record
\* whose text is the title and whose sentiment is negative.
C12_Witness ==
    /\ WorkReturned
    /\ call.how = "exc"
    /\ call.item.description = ""
    /\ call.ret[1].text = call.item.title
    /\ call.ret[1].sentiment.label = "negative"

\* C16: the text of the record is the first non-empty of the fetched body,
\* the description and the title, and the sentiment and the summary of the
\* record are those of that text.
C16_TextPreferenceOrder ==
    WorkReturned =>
       LET r == call.ret[1]
           b == call.art.text
           d == call.item.description
           t == call.item.title
       IN /\ b # "" => r.text = b
          /\ (b = "" /\ d # "") => r.text = d
          /\ (b = "" /\ d = "" /\ t # "") => r.text = t
          /\ r.sentiment = SentimentOf(r.text, call.vader, call.comp)
          /\ r.summary = summarizeText(r.text)

\* A record took its text from the fetched body although the headline has
\* a description, and its sentiment is the positive one of that body.
C16_Witness ==
    /\ WorkReturned
    /\ call.how = "ok"
    /\ call.item.description # ""
    /\ call.ret[1].text = "B1"
    /\ call.ret[1].summary = "B1s"
    /\ call.ret[1].sentiment.label = "positive"

\* ------------------------------------------------ floating-point scores
\* freq[k] / max_f and the sum over a sentence's tokens are IEEE-754 doubles.
\* All the scores of one text are multiples of 1 / max_f up to rounding, so a
\* double x is kept as [q, e] with x = (q + e / 2^ErrScale) / max_f: q is the
\* exact count sum and e the rounding error so far.
MantissaBits == 52
ErrScale == 56

\* 2^k modulo m.
RECURSIVE PowMod2(_, _)
PowMod2(k, m) == IF k = 0 THEN 1 % m ELSE (2 * PowMod2(k - 1, m)) % m

\* The binary exponent of (q + e / 2^ErrScale) / m.
Binade(q, e, m) ==
    LET lo == ErrScale - MantissaBits
        E0 == CHOOSE E \in -lo .. lo : /\ m * 2^(E + lo) <= q * 2^lo
                                       /\ q * 2^lo < m * 2^(E + lo + 1)
    IN IF q * 2^lo = m * 2^(E0 + lo) /\ e < 0 THEN E0 - 1 ELSE E0

\* Round-to-nearest, ties to the even mantissa, of (q + e / 2^ErrScale) / m.
RoundDouble(q, e, m) ==
    LET E == Binade(q, e, m)
        h == 2^(E + ErrScale - MantissaBits)
        U == m * h
        r == (h * ((q * PowMod2(MantissaBits - E, m)) % m) + e) % U
        k == ((q * PowMod2(MantissaBits - E, 2 * m)) + ((e - r) \div h)) % (2 * m)
    IN IF r = 0 THEN [q |-> q, e |-> e]
       ELSE IF 2 * r < U THEN [q |-> q, e |-> e - r]
       ELSE IF 2 * r > U THEN [q |-> q, e |-> e + U - r]
       ELSE IF k = 0 THEN [q |-> q, e |-> e - r]
       ELSE [q |-> q, e |-> e + r]

\* freq[w] = count / max_f
RelFreq(count, m) == RoundDouble(count, 0, m)

\* sum(freq.get(w, 0.0) for w in sw): left to right from the integer 0.
RECURSIVE FloatSum(_, _)
FloatSum(counts, m) ==
    IF counts = <<>> THEN [q |-> 0, e |-> 0]
    ELSE LET acc == FloatSum(SubSeq(counts, 1, Len(counts) - 1), m)
             x == RelFreq(counts[Len(counts)], m)
         IN IF acc.q = 0 THEN x
            ELSE RoundDouble(acc.q + x.q, acc.e + x.e, m)

\* x > y for two doubles of the same text.
FloatGT(x, y) == x.q > y.q \/ (x.q = y.q /\ x.e > y.e)

\* ------------------------------------------------- summarizeText, in full
\* A text is the sequence of its sentences as the splitter cuts them, each
\* with the lower-cased words _WORD_RE finds in it; every word of the
\* model's sentences is one token. Two sentences with the same words can be
\* different strings (ids s5, s6).
MaxSents == 3
MaxN == 3

\* Words of _STOPWORDS.
Stopwords == {"the", "is"}

Sentences ==
    {[id |-> "s1", toks |-> <<"apple", "bird", "cat", "dog">>],
     [id |-> "s2", toks |-> <<"emu", "fox", "gnu", "apple">>],
     [id |-> "s3", toks |-> <<"apple">>],
     [id |-> "s4", toks |-> <<"the", "bird", "is", "the">>],
     [id |-> "s5", toks |-> <<"bird", "cat", "dog">>],
     [id |-> "s6", toks |-> <<"bird", "cat", "dog">>],
     [id |-> "s7", toks |-> <<"the", "is", "the">>]}

Texts == SeqUpTo(Sentences, MaxSents)

\* _fast_words on the words of a string: the stopwords go.
_fast_words(toks) == SelectSeq(toks, LAMBDA w : w \notin Stopwords)

\* _fast_sentences: the sentences of at least three words.
_fast_sentences(text) == SelectSeq(text, LAMBDA s : Len(s.toks) >= 3)

\* _fast_words(text) on the whole text.
RECURSIVE TextWords(_)
TextWords(text) ==
    IF text = <<>> THEN <<>>
    ELSE _fast_words(Head(text).toks) \o TextWords(Tail(text))

\* freq[w] before the division.
Count(w, words) == Cardinality({i \in DOMAIN words : words[i] = w})

\* max(freq.values())
MaxCount(words) ==
    CHOOSE c \in {Count(words[i], words) : i \in DOMAIN words} :
       \A i \in DOMAIN words : Count(words[i], words) <= c

\* scores[s] for sentence s of a text with these words.
Score(s, words) ==
    LET sw == _fast_words(s.toks)
    IN FloatSum([j \in DOMAIN sw |-> Count(sw[j], words)], MaxCount(words))

\* The keys of the dict scores in insertion order, as positions in
\* sentences: a sentence is keyed where it occurs first, and only with at
\* least three tokens.
ScoreKeys(sentences) ==
    LET keyed(i) == /\ Len(_fast_words(sentences[i].toks)) >= 3
                    /\ \A j \in 1 .. i - 1 : sentences[j] # sentences[i]
         sel[i \in 0 .. Len(sentences)] ==
            IF i = 0 THEN <<>>
            ELSE IF keyed(i) THEN Append(sel[i - 1], i) ELSE sel[i - 1]
    IN sel[Len(sentences)]

\* Faulty variant of InsertRanked: a key goes before the keys of equal
\* score.
RECURSIVE InsertRankedUnstable(_, _, _)
InsertRankedUnstable(r, k, sc) ==
    IF r = <<>> THEN <<k>>
    ELSE IF ~FloatGT(sc[Head(r)], sc[k]) THEN <<k>> \o r
    ELSE <<Head(r)>> \o InsertRankedUnstable(Tail(r), k, sc)

\* sorted(scores, key=scores.get, reverse=True) is stable: key k goes
\* before the first key of smaller score.
RECURSIVE InsertRanked(_, _, _)
InsertRanked(r, k, sc) ==
    IF r = <<>> THEN <<k>>
    ELSE IF FloatGT(sc[k], sc[Head(r)]) THEN <<k>> \o r
    ELSE <<Head(r)>> \o InsertRanked(Tail(r), k, sc)

RECURSIVE Ranked(_, _)
Ranked(keys, sc) ==
    IF keys = <<>> THEN <<>>
    ELSE InsertRanked(Ranked(SubSeq(keys, 1, Len(keys) - 1), sc), keys[Len(keys)], sc)

\* Faulty variant of Take: max_sentences is ignored.
TakeAll(s, n) == s

\* s[:n] for n >= 0.
Take(s, n) == SubSeq(s, 1, IF n < Len(s) THEN n ELSE Len(s))

\* summarizeText(text, max_sentences), as the list it joins with " ".
summarize(text, max_sentences) ==
    LET sentences == _fast_sentences(text)
        words == TextWords(text)
        keys == ScoreKeys(sentences)
        sc == [i \in DOMAIN sentences |-> Score(sentences[i], words)]
        top == Take(Ranked(keys, sc), max_sentences)
        chosen == {top[i] : i \in DOMAIN top}
        inOrder == SelectSeq(keys, LAMBDA i : i \in chosen)
    IN IF text = <<>> \/ sentences = <<>> THEN <<>>
       ELSE IF words = <<>> \/ keys = <<>> THEN Take(sentences, max_sentences)
       ELSE [i \in DOMAIN inOrder |-> sentences[inOrder[i]]]

InitSummary ==
    /\ InitIdle
    /\ call \in {[op |-> "summarizeText", text |-> x, n |-> n,
                   done |-> FALSE, ret |-> <<>>] :
                     x \in Texts, n \in 0 .. MaxN}

\* summarizeText(text, n) runs.
CallSummary ==
    /\ call.op = "summarizeText"
    /\ ~call.done
    /\ call' = [call EXCEPT !.done = TRUE, !.ret = summarize(call.text, call.n)]
    /\ UNCHANGED progVars

SpecSummary == InitSummary /\ [][CallSummary]_vars

SummaryReturned == call.op = "summarizeText" /\ call.done

\* s is made of elements of t in the order they have in t.
IsSubsequence(s, t) ==
    \E f \in [DOMAIN s -> DOMAIN t] :
       /\ \A i \in DOMAIN s : s[i] = t[f[i]]
       /\ \A i, j \in DOMAIN s : i < j => f[i] < f[j]

\* C14: summarizeText(text, n) with n >= 0 returns at most n sentences, each
\* a sentence of the split text, in the order of the text.
C14_AtMostNSentencesInOrder ==
    SummaryReturned =>
       /\ Len(call.ret) <= call.n
       /\ IsSubsequence(call.ret, _fast_sentences(call.text))

\* Three sentences went in and two came out because only two were asked
\* for.
C14_Witness ==
    /\ SummaryReturned
    /\ call.n = 2
    /\ Len(_fast_sentences(call.text)) = 3
    /\ Len(call.ret) = 2

\* The positions in sentences that can be selected: a sentence of at least
\* three tokens, where it occurs first.
Candidates(sentences) ==
    {i \in DOMAIN sentences :
        /\ Len(_fast_words(sentences[i].toks)) >= 3
        /\ \A j \in 1 .. i - 1 : sentences[j] # sentences[i]}

\* The sentences at the n best candidate positions under the scores sc,
\* an earlier position going before a later one of equal score, listed in
\* the order of the text.
BestInOrder(sentences, sc, n) ==
    LET cand == Candidates(sentences)
        before(i, j) == FloatGT(sc[i], sc[j]) \/ (sc[i] = sc[j] /\ i < j)
        best == {i \in cand : Cardinality({j \in cand : before(j, i)}) < n}
        pos == SelectSeq([i \in DOMAIN sentences |-> i], LAMBDA i : i \in best)
    IN [k \in DOMAIN pos |-> sentences[pos[k]]]

\* The sum of the relative frequencies of the tokens of sentence s, exactly.
ExactScore(s, words) == [q |-> Score(s, words).q, e |-> 0]

TopByComputedScore ==
    LET sentences == _fast_sentences(call.text)
        words == TextWords(call.text)
    IN (SummaryReturned /\ Candidates(sentences) # {}) =>
          call.ret = BestInOrder(sentences,
                                 [i \in DOMAIN sentences |-> Score(sentences[i], words)],
                                 call.n)

\* Of two different sentences with the same computed score the earlier one
\* was returned, one sentence being asked for.
TopByComputedScore_Witness ==
    /\ SummaryReturned
    /\ call.n = 1
    /\ LET sentences == _fast_sentences(call.text)
           words == TextWords(call.text)
       IN /\ Len(sentences) = 2
          /\ Candidates(sentences) = {1, 2}
          /\ Score(sentences[1], words) = Score(sentences[2], words)
          /\ call.ret = <<sentences[1]>>

\* ------------------------------------------ the retries inside _SESSION.get
\* Retry(total=3, ...)
RetryTotal == 3

\* status_forcelist
StatusForcelist == {429, 500, 502, 503, 504}

\* What the server does to one request: answer with a status, or fail the
\* transport (refused connection, timeout).
AttemptKinds ==
    {[kind |-> "resp", status |-> 200], [kind |-> "resp", status |-> 404],
     [kind |-> "resp", status |-> 429], [kind |-> "resp", status |-> 503],
     [kind |-> "exc", status |-> 0]}

\* The adapter sends a request again after a transport error and after a
\* status of the forcelist (GET is an allowed method).
Retryable(a) == a.kind = "exc" \/ a.status \in StatusForcelist

\* The server's behaviour towards the successive requests of one call.
Servers == [1 .. RetryTotal + 2 -> AttemptKinds]

\* Faulty variant of Exhausted: one retry more than total.
ExhaustedLate(left) == left < 0

\* Retry.increment raises MaxRetryError once the count would go below zero.
Exhausted(left) == left = 0

\* _SESSION.get(url): request number k with `left` retries remaining. It
\* gives the number of requests sent and how the call ends: with a
\* response (also the last retryable one, as raise_on_status is False) or
\* with an exception.
RECURSIVE SessionGetFrom(_, _, _)
SessionGetFrom(server, k, left) ==
    LET a == server[k]
    IN IF Retryable(a) /\ ~Exhausted(left) /\ k < Len(server)
       THEN SessionGetFrom(server, k + 1, left - 1)
       ELSE [requests |-> k,
             outcome |-> [kind |-> a.kind, status |-> a.status, html |-> "full"]]

InitRetry ==
    /\ InitIdle
    /\ call \in {[op |-> "fetchArticle", url |-> u, server |-> sv, done |-> FALSE,
                   raised |-> FALSE, requests |-> 0, ret |-> <<>>] :
                     u \in Urls, sv \in Servers}

\* fetchArticle(url) runs to its end against the server call.server.
CallFetchArticle ==
    /\ call.op = "fetchArticle"
    /\ ~call.done
    /\ LET u == call.url
           hit == u \in DOMAIN _CACHE
           g == SessionGetFrom(call.server, 1, RetryTotal)
           b == FetchBody(g.outcome)
       IN IF hit
          THEN /\ call' = [call EXCEPT !.done = TRUE, !.ret = <<_CACHE[u]>>]
               /\ UNCHANGED <<_CACHE, netGets>>
          ELSE /\ call' = [call EXCEPT !.done = TRUE,
                                       !.raised = b.raised,
                                       !.requests = g.requests,
                                       !.ret = IF b.raised THEN <<>> ELSE <<b.result>>]
               /\ _CACHE' = IF b.raised THEN _CACHE ELSE CacheStore(_CACHE, u, b.result)
               /\ netGets' = [netGets EXCEPT ![u] = @ + 1]
    /\ UNCHANGED <<thr, firstRet, calls, pc, collectVars, ghostCats, fut, out, overtaken>>

SpecRetry == InitRetry /\ [][CallFetchArticle]_vars

\* The server answers every request with a retryable status or fails it.
AlwaysRetryable(server) == \A k \in DOMAIN server : Retryable(server[k])

\* C18: against a server that answers every request with a status of the
\* forcelist or a transport error, a fetchArticle call sends at most
\* 1 + 3 requests, returns the empty result without raising, and has
\* cached it.
C18_BoundedRetriesThenEmpty ==
    (call.op = "fetchArticle" /\ call.done /\ AlwaysRetryable(call.server)) =>
       /\ call.requests >= 1
       /\ call.requests <= 1 + RetryTotal
       /\ ~call.raised
       /\ call.ret = <<EmptyResult>>
       /\ call.url \in DOMAIN _CACHE
       /\ _CACHE[call.url] = EmptyResult

\* A call met 503, a transport error, 429 and a transport error, sent four
\* requests and cached the empty result.
C18_Witness ==
    /\ call.op = "fetchArticle"
    /\ call.done
    /\ AlwaysRetryable(call.server)
    /\ call.server[1].status = 503
    /\ call.server[2].kind = "exc"
    /\ call.server[3].status = 429
    /\ call.server[4].kind = "exc"
    /\ call.requests = 1 + RetryTotal
    /\ _CACHE = [u \in {call.url} |-> EmptyResult]

\* ------------------------------------------------- the headline-only branch
\* Step 4 is at `if not out and headlines`, the with block having ended,
\* and the condition is true.
FallbackTaken ==
    /\ pc = "collect"
    /\ pc' \in {"returned", "raised"}
    /\ out = <<>>
    /\ headlines # <<>>

\* C22: a run that returns an empty list had no headlines, and no run
\* executes the headline-only branch of step 4.
C22_FallbackNeverTaken ==
    /\ [](pc = "returned" /\ out = <<>> => headlines = <<>>)
    /\ [][~FallbackTaken]_vars

\* A run asked for its categories, collected no headline and returned the
\* empty list.
C22_Witness ==
    /\ pc = "returned"
    /\ nreq >= 1
    /\ headlines = <<>>
    /\ out = <<>>

\* ------------------------------------------------------------- termination
\* The steps of the thread that runs getNews.
Main ==
    \/ GnewsRequest
    \/ Accumulate
    \/ Dispatch
    \/ Collect
    \/ Finish
    \/ Shutdown

\* The steps of a task on pool thread t once it has started.
TaskStep(t) ==
    \/ CacheLookup(t)
    \/ SessionGet(t)
    \/ CachePut(t)
    \/ TaskFinish(t)

\* The steps of pool thread t.
Worker(t) == TaskStart(t) \/ TaskStep(t)

\* The headline lists step 1 can end with after several categories and not
\* after one: no url twice, more headlines than one answer lists.
HeadlineLists ==
    {hl \in SeqUpTo(WorkItems, Cardinality(Urls)) :
        /\ Len(hl) > MaxItems
        /\ Len(hl) <= MaxCats * MaxItems
        /\ \A i, j \in DOMAIN hl : hl[i].url = hl[j].url => i = j}

\* getNews at line 347, step 1 done: every category was answered with 200
\* and the answers, one after the other, listed the headlines, each url
\* once.
AfterStepOne ==
    /\ _CACHE \in WarmCaches
    /\ thr = [t \in Threads |-> IdleThread]
    /\ netGets = [u \in Urls |-> 0]
    /\ firstRet = <<>>
    /\ calls = 0
    /\ pc = "request"
    /\ ncats = MaxCats
    /\ cat = MaxCats + 1
    /\ items = <<>>
    /\ headlines \in HeadlineLists
    /\ seen_urls = UrlsOf(headlines)
    /\ fut = <<>>
    /\ out = <<>>
    /\ nreq = MaxCats
    /\ failedCats = {}
    /\ failAdded = 0
    /\ okUrls = UrlsOf(headlines)
    /\ dupSeen = FALSE
    /\ overtaken = FALSE
    /\ call = NoCall

\* The runs followed to their end: those over at most one category from
\* their first line, the others from the end of step 1.
InitFair ==
    \/ InitNews /\ ncats <= 1
    \/ AfterStepOne

\* A getNews run in which a request that is under way ends (every
\* _SESSION.get has a timeout) and every thread that can run does run.
SpecFair ==
    /\ InitFair
    /\ [][Next]_vars
    /\ WF_vars(Main)
    /\ \A t \in Threads : WF_vars(Worker(t))

\* The run has left getNews.
RunOver == pc \in {"returned", "raised"}

\* C21: with requests that end and fair scheduling, every getNews run
\* finishes; a task that has started can always take its next step, whatever
\* the other tasks are doing; and once the run has returned or raised, none
\* of its tasks is running or queued.
C21_RunFinishesNoTaskInFlight ==
    /\ <>RunOver
    /\ [](\A t \in Threads : thr[t].pc # "idle" => ENABLED TaskStep(t))
    /\ [](RunOver =>
             /\ \A t \in Threads : thr[t].pc = "idle"
             /\ \A i \in DOMAIN fut : fut[i].state \notin {"pending", "running"})

\* A run has raised after it waited for a task that was running when
\* another one threw, a queued task having been cancelled.
C21_Witness ==
    /\ pc = "raised"
    /\ \E i \in DOMAIN fut : fut[i].state = "cancelled"
    /\ \E i \in DOMAIN fut : fut[i].state = "done"

====
